---- MODULE Spec2Model ----
(***************************************************************************)
(* MediTrack administrative scripts.                                       *)
(*                                                                         *)
(*   scripts/setup_auth.py            the provisioning tool                *)
(*   scripts/test_supabase_access.py  the access-verification tool         *)
(*                                                                         *)
(* Both tools are single-threaded sequences of remote calls.  The backend  *)
(* (identity store, profile table, REST tables) is the environment: every  *)
(* remote call either answers or raises, and the answer is drawn from the  *)
(* backend state.                                                          *)
(***************************************************************************)
EXTENDS Integers, Sequences, FiniteSets, TLC

VARIABLES
    \* ---- backend ----
    accounts,      \* identity store: set of [id, email]
    profiles,      \* user_profiles rows: set of [id, email, role, ...]
    nextId,        \* next identifier the identity store hands out
    trigger,       \* whether account creation also inserts a profile row
    \* ---- provisioning tool (setup_auth.py) ----
    pc,            \* position in main(): idle, connect, migrate, create, verify, done
    env,           \* [url, service, anon] as read by os.getenv at import
    authKey,       \* the credential handed to create_client
    migrated,      \* return value of run_migration_sql: "none", "true", "false"
    adminOK,       \* return value of create_admin_user: "none", "true", "false"
    verifyOK,      \* return value of verify_setup: "none", "true", "false"
    exitCode,      \* process exit status, -1 while not terminated
    calls,         \* remote calls of the current run: Seq([op, res])
    out,           \* console lines of the current run, by kind
    path,          \* what create_admin_user went through in the current run
    runs,          \* number of runs started
    prev,          \* snapshot of the run before the current one
    \* ---- access-verification tool (test_supabase_access.py) ----
    apc,           \* position in the script: t1, t2, t3, t4, end, aborted
    medications,   \* the backend's medications rows (ids in table order)
    first_med_id,  \* the script's variable of that name
    alog,          \* requests and reports in the order they happen
    written,       \* dispensing-log records the backend created in this run
    harness        \* which tool / harness the behaviour exercises

vars == << accounts, profiles, nextId, trigger, pc, env, authKey, migrated,
           adminOK, verifyOK, exitCode, calls, out, path, runs, prev,
           apc, medications, first_med_id, alog, written, harness >>

backendVars == << accounts, profiles, nextId, trigger >>
provVars    == << pc, env, authKey, migrated, adminOK, verifyOK, exitCode,
                 calls, out, path, runs, prev >>
accessVars  == << apc, medications, first_med_id, alog, written >>

(***************************************************************************)
(* Bounds of the model.                                                    *)
(***************************************************************************)
MaxRuns == 2        \* runs of the provisioning tool in one behaviour
MaxPre  == 2        \* accounts existing before the first run
MaxMeds == 2        \* rows the medications read returns

(***************************************************************************)
(* Python values.                                                          *)
(***************************************************************************)
\* os.getenv(name): None when unset, else the string (possibly empty).
PyNone     == [set |-> FALSE, val |-> ""]
PyStr(s)   == [set |-> TRUE, val |-> s]
PyTruthy(v) == v.set /\ v.val # ""
PyOr(a, b)  == IF PyTruthy(a) THEN a ELSE b

EnvValues(s) == { PyNone, PyStr(""), PyStr(s) }

\* setup_auth.py:34
ADMIN_EMAIL == "2646502936yjh@gmail.com"
OtherEmails == { "nurse@clinic.org", "x2646502936yjh@gmail.com" }
Emails      == { ADMIN_EMAIL } \cup OtherEmails

(***************************************************************************)
(* Error texts.  A text is a sequence of words; str.lower() acts on each   *)
(* word and `needle in text` looks for the word.                           *)
(***************************************************************************)
ErrTexts ==
    { << "User", "already_exists" >>,
      << "User", "Already_Exists" >>,
      << "Duplicate", "key" >>,
      << "duplicate", "key" >>,
      << "email_exists" >>,
      << "timeout" >> }

LowerWord(w) ==
    CASE w = "User"           -> "user"
      [] w = "Already_Exists" -> "already_exists"
      [] w = "Duplicate"      -> "duplicate"
      [] OTHER                -> w

Lower(msg) == [ i \in DOMAIN msg |-> LowerWord(msg[i]) ]

Contains(msg, w) == \E i \in DOMAIN msg : msg[i] = w


(***************************************************************************)
(* Backend (environment).  The identity store keeps emails unique; a       *)
(* profile row belongs to one account and carries its id and email.        *)
(***************************************************************************)
NewProfile(id, email) ==
    [ id |-> id, email |-> email, role |-> "staff", is_approved |-> FALSE,
      approved_by |-> 0, approved_at |-> 0 ]

AdminAccounts(accts) == { a \in accts : a.email = ADMIN_EMAIL }

\* auth.admin.create_user accepted by the backend: a new identity, and its
\* profile row when the on-signup trigger is installed.
BackendCreateUser(accts, profs, id, email, trig) ==
    [ accounts |-> accts \cup { [ id |-> id, email |-> email ] },
      profiles |-> IF trig THEN profs \cup { NewProfile(id, email) } ELSE profs ]

\* auth.admin.list_users(): the identities, oldest first.
RECURSIVE ListUsers(_)
ListUsers(accts) ==
    IF accts = {} THEN << >>
    ELSE LET first == CHOOSE a \in accts : \A b \in accts : a.id <= b.id
         IN  << first >> \o ListUsers(accts \ { first })

Call(op, res) == [ op |-> op, res |-> res ]

(***************************************************************************)
(* setup_auth.py                                                           *)
(***************************************************************************)
\* A variant that goes on with whatever credential it has.
create_supabase_client_NoKeyCheck(e) ==
    IF ~ PyTruthy(e.url)
    THEN [ exit |-> TRUE, key |-> PyNone, out |-> "err_no_url" ]
    ELSE [ exit |-> FALSE, key |-> PyOr(e.service, e.anon), out |-> "connected" ]

\* create_supabase_client, lines 39-52: which key is used, or sys.exit(1).
create_supabase_client(e) ==
    IF ~ PyTruthy(e.url)
    THEN [ exit |-> TRUE, key |-> PyNone, out |-> "err_no_url" ]
    ELSE LET auth_key == PyOr(e.service, e.anon)
         IN  IF ~ PyTruthy(auth_key)
             THEN [ exit |-> TRUE, key |-> PyNone, out |-> "err_no_key" ]
             ELSE [ exit |-> FALSE, key |-> auth_key, out |-> "connected" ]

\* run_migration_sql, lines 54-76.  file: "missing", "unreadable", "ok";
\* rpc: "ok" or "raise".
run_migration_sql(file, rpc) ==
    IF file = "missing"
    THEN [ ret |-> FALSE, calls |-> << >>, out |-> << "migration_file_not_found" >> ]
    ELSE IF file = "unreadable"
    THEN [ ret |-> FALSE, calls |-> << >>, out |-> << "migration_failed" >> ]
    ELSE IF rpc = "raise"
    THEN [ ret |-> FALSE, calls |-> << Call("rpc", "raise") >>,
           out |-> << "migration_failed" >> ]
    ELSE [ ret |-> TRUE, calls |-> << Call("rpc", "ok") >>,
           out |-> << "migration_completed" >> ]

\* Variants of the classification: no lower-casing at all, and
\* lower-casing for both needles.
IsDuplicateError_NoLower(error_msg) ==
    Contains(error_msg, "already_exists") \/ Contains(error_msg, "duplicate")

IsDuplicateError_LowerBoth(error_msg) ==
    Contains(Lower(error_msg), "already_exists") \/ Contains(Lower(error_msg), "duplicate")

\* line 114: 'already_exists' in error_msg or 'duplicate' in error_msg.lower()
IsDuplicateError(error_msg) ==
    Contains(error_msg, "already_exists") \/ Contains(Lower(error_msg), "duplicate")

\* lines 99-104 and 123-128: update(...).eq('id', id).execute()
ProfileUpdate(profs, id, now) ==
    { IF p.id = id
      THEN [ p EXCEPT !.role = "admin", !.is_approved = TRUE,
                      !.approved_by = id, !.approved_at = now ]
      ELSE p : p \in profs }

\* A variant matching by suffix (email.endswith(ADMIN_EMAIL)).
EndsWithAdminEmail(email) == email \in { ADMIN_EMAIL, "x2646502936yjh@gmail.com" }

FindAdminUser_Suffix(users) ==
    LET hits == { i \in DOMAIN users : EndsWithAdminEmail(users[i].email) }
    IN  IF hits = {} THEN 0
        ELSE users[CHOOSE i \in hits : \A j \in hits : i <= j].id

\* line 119: next((u for u in users if u.email == ADMIN_EMAIL), None); 0 is None.
FindAdminUser(users) ==
    LET hits == { i \in DOMAIN users : users[i].email = ADMIN_EMAIL }
    IN  IF hits = {} THEN 0
        ELSE users[CHOOSE i \in hits : \A j \in hits : i <= j].id

NoPath ==
    [ create |-> "none", excepted |-> FALSE, msg |-> << >>, dup |-> FALSE,
      listRaised |-> FALSE, updRaised |-> FALSE, target |-> 0 ]

\* The duplicate branch, lines 115-133.  ls, u2: "ok" or "raise".
Reconcile(accts, profs, now, ls, u2) ==
    IF ls = "raise"
    THEN [ ok |-> FALSE, profiles |-> profs,
           calls |-> << Call("list_users", "raise") >>,
           out |-> << "already_exists_updating", "update_existing_failed" >>,
           listRaised |-> TRUE, updRaised |-> FALSE, target |-> 0 ]
    ELSE LET admin_user == FindAdminUser(ListUsers(accts))
         IN  IF admin_user = 0
             THEN [ ok |-> FALSE, profiles |-> profs,
                    calls |-> << Call("list_users", "ok") >>,
                    out |-> << "already_exists_updating" >>,
                    listRaised |-> FALSE, updRaised |-> FALSE, target |-> 0 ]
             ELSE IF u2 = "raise"
             THEN [ ok |-> FALSE, profiles |-> profs,
                    calls |-> << Call("list_users", "ok"), Call("update", "raise") >>,
                    out |-> << "already_exists_updating", "update_existing_failed" >>,
                    listRaised |-> FALSE, updRaised |-> TRUE, target |-> admin_user ]
             ELSE [ ok |-> TRUE, profiles |-> ProfileUpdate(profs, admin_user, now),
                    calls |-> << Call("list_users", "ok"), Call("update", "ok") >>,
                    out |-> << "already_exists_updating", "existing_updated" >>,
                    listRaised |-> FALSE, updRaised |-> FALSE, target |-> admin_user ]

\* The except clause, lines 112-137, entered with error_msg = str(e).
HandleCreateError(accts, profs, now, error_msg, ls, u2) ==
    IF IsDuplicateError(error_msg)
    THEN LET r == Reconcile(accts, profs, now, ls, u2)
         IN  [ ok |-> r.ok, profiles |-> r.profiles, calls |-> r.calls, out |-> r.out,
               dup |-> TRUE, listRaised |-> r.listRaised, updRaised |-> r.updRaised,
               target |-> r.target ]
    ELSE [ ok |-> FALSE, profiles |-> profs, calls |-> << >>,
           out |-> << "create_failed_error" >>,
           dup |-> FALSE, listRaised |-> FALSE, updRaised |-> FALSE, target |-> 0 ]

\* create_admin_user, lines 78-137.
\*   cu : answer of create_user: "ok", "nouser" (response.user is None), "raise"
\*   u1 : answer of the profile update after a creation: "ok", "raise"
\*   error_msg : str(e) of the exception the try block raised, if any
\*   ls, u2 : answers of list_users and of the update in the duplicate branch
create_admin_user(accts, profs, nid, trig, now, cu, u1, error_msg, ls, u2) ==
    LET made == BackendCreateUser(accts, profs, nid, ADMIN_EMAIL, trig)
    IN  IF cu = "ok" /\ u1 = "ok"
        THEN [ ok |-> TRUE, accounts |-> made.accounts,
               profiles |-> ProfileUpdate(made.profiles, nid, now), nextId |-> nid + 1,
               calls |-> << Call("create_user", "ok"), Call("update", "ok") >>,
               out |-> << "creating", "admin_created", "profile_configured" >>,
               path |-> [ NoPath EXCEPT !.create = "ok", !.target = nid ] ]
        ELSE IF cu = "nouser"
        THEN [ ok |-> FALSE, accounts |-> accts, profiles |-> profs, nextId |-> nid,
               calls |-> << Call("create_user", "nouser") >>,
               out |-> << "creating", "create_failed_nouser" >>,
               path |-> [ NoPath EXCEPT !.create = "nouser" ] ]
        ELSE IF cu = "ok"
        THEN \* the update raised inside the try block: the same except clause
             LET h == HandleCreateError(made.accounts, made.profiles, now, error_msg, ls, u2)
             IN  [ ok |-> h.ok, accounts |-> made.accounts, profiles |-> h.profiles,
                   nextId |-> nid + 1,
                   calls |-> << Call("create_user", "ok"), Call("update", "raise") >>
                             \o h.calls,
                   out |-> << "creating", "admin_created" >> \o h.out,
                   path |-> [ create |-> "ok", excepted |-> TRUE, msg |-> error_msg,
                              dup |-> h.dup,
                              listRaised |-> h.listRaised, updRaised |-> h.updRaised,
                              target |-> h.target ] ]
        ELSE LET h == HandleCreateError(accts, profs, now, error_msg, ls, u2)
             IN  [ ok |-> h.ok, accounts |-> accts, profiles |-> h.profiles,
                   nextId |-> nid,
                   calls |-> << Call("create_user", "raise") >> \o h.calls,
                   out |-> << "creating" >> \o h.out,
                   path |-> [ create |-> "raise", excepted |-> TRUE, msg |-> error_msg,
                              dup |-> h.dup,
                              listRaised |-> h.listRaised, updRaised |-> h.updRaised,
                              target |-> h.target ] ]

\* line 153: select('*').eq('email', ADMIN_EMAIL)
AdminResult(profs) == { p \in profs : p.email = ADMIN_EMAIL }

\* verify_setup, lines 139-170.  s1, s2, s3: answers of the three selects.
verify_setup(profs, s1, s2, s3) ==
    IF s1 = "raise"
    THEN [ ret |-> FALSE, calls |-> << Call("select_user_profiles", "raise") >>,
           out |-> << "verifying", "verification_failed" >> ]
    ELSE IF s2 = "raise"
    THEN [ ret |-> FALSE,
           calls |-> << Call("select_user_profiles", "ok"),
                        Call("select_invitation_codes", "raise") >>,
           out |-> << "verifying", "verification_failed" >> ]
    ELSE IF s3 = "raise"
    THEN [ ret |-> FALSE,
           calls |-> << Call("select_user_profiles", "ok"),
                        Call("select_invitation_codes", "ok"),
                        Call("select_admin", "raise") >>,
           out |-> << "verifying", "tables_ok", "verification_failed" >> ]
    ELSE [ ret |-> AdminResult(profs) # {},
           calls |-> << Call("select_user_profiles", "ok"),
                        Call("select_invitation_codes", "ok"),
                        Call("select_admin", "ok") >>,
           out |-> IF AdminResult(profs) # {}
                   THEN << "verifying", "tables_ok", "admin_verified" >>
                   ELSE << "verifying", "tables_ok", "warn_admin_not_found" >> ]


(***************************************************************************)
(* main(), lines 172-214: what follows each step.                          *)
(***************************************************************************)
\* Variants of main: a failed migration is fatal; a failed verification is not.
AfterMigration_Fatal(ret) ==
    IF ret THEN [ pc |-> "create", exit |-> -1 ] ELSE [ pc |-> "done", exit |-> 1 ]

AfterVerify_Ignored(ok) == [ pc |-> "done", exit |-> 0 ]

\* lines 187-188: the return value of run_migration_sql is discarded.
AfterMigration(ret) == [ pc |-> "create", exit |-> -1 ]

\* lines 190-193
AfterCreate(ok) ==
    IF ~ ok THEN [ pc |-> "done", exit |-> 1 ] ELSE [ pc |-> "verify", exit |-> -1 ]

\* lines 195-214
AfterVerify(ok) ==
    IF ok THEN [ pc |-> "done", exit |-> 0 ] ELSE [ pc |-> "done", exit |-> 1 ]

Bool3(b) == IF b THEN "true" ELSE "false"

\* What a finished run leaves behind (timestamps left out).
AdminRows(accts, profs) ==
    { [ id |-> p.id, role |-> p.role, is_approved |-> p.is_approved,
        approved_by |-> p.approved_by ] :
      p \in { q \in profs : \E a \in AdminAccounts(accts) : a.id = q.id } }

NoSnapshot == [ run |-> 0, exit |-> -1, create |-> "none", admins |-> {}, rows |-> {} ]

Snapshot(n, code, how, accts, profs) ==
    [ run    |-> n,
      exit   |-> code,
      create |-> how,
      admins |-> { a.id : a \in AdminAccounts(accts) },
      rows   |-> AdminRows(accts, profs) ]

(***************************************************************************)
(* Initial states: the backend before the first run.                       *)
(***************************************************************************)
\* The profile row of an account created out-of-band: absent, or present in
\* one of the states the application leaves it in.
ProfileChoices(id, email) ==
    IF email = ADMIN_EMAIL
    THEN { {} } \cup
         { { [ id |-> id, email |-> email, role |-> f.role, is_approved |-> f.ok,
               approved_by |-> 0, approved_at |-> 0 ] } :
           f \in { [ role |-> "staff", ok |-> FALSE ], [ role |-> "staff", ok |-> TRUE ],
                   [ role |-> "admin", ok |-> TRUE ] } }
    ELSE { { NewProfile(id, email) } }

\* Accounts created out-of-band, oldest first, emails unique.
PreExisting ==
    { s \in UNION { [ 1..n -> Emails ] : n \in 0..MaxPre } :
        \A i, j \in DOMAIN s : i # j => s[i] # s[j] }

InitBackend ==
    /\ \E s \in PreExisting :
         /\ accounts = { [ id |-> i, email |-> s[i] ] : i \in DOMAIN s }
         /\ nextId = Len(s) + 1
         /\ \E f \in [ DOMAIN s -> UNION { ProfileChoices(i, e) : i \in 1..MaxPre + 1,
                                                                  e \in Emails } ] :
              /\ \A i \in DOMAIN s : f[i] \in ProfileChoices(i, s[i])
              /\ profiles = UNION { f[i] : i \in DOMAIN s }
    /\ trigger \in BOOLEAN

IdleProv ==
    /\ pc = "idle"
    /\ env = [ url |-> PyNone, service |-> PyNone, anon |-> PyNone ]
    /\ authKey = PyNone
    /\ migrated = "none" /\ adminOK = "none" /\ verifyOK = "none"
    /\ exitCode = -1
    /\ calls = << >> /\ out = << >>
    /\ path = NoPath
    /\ runs = 0
    /\ prev = NoSnapshot

IdleAccess ==
    /\ apc = "off"
    /\ medications = << >>
    /\ first_med_id = [ kind |-> "none", n |-> 0, s |-> "" ]
    /\ alog = << >>
    /\ written = << >>

Init ==
    /\ harness = "provision"
    /\ InitBackend
    /\ IdleProv
    /\ IdleAccess

(***************************************************************************)
(* Actions of the provisioning tool.                                       *)
(***************************************************************************)
\* The operator starts the tool: module import reads the environment.
Launch ==
    /\ pc \in { "idle", "done" }
    /\ runs < MaxRuns
    /\ \E u \in EnvValues("https://project.supabase.co"),
          k \in EnvValues("service-role-key"),
          a \in EnvValues("anon-key") :
          env' = [ url |-> u, service |-> k, anon |-> a ]
    /\ pc' = "connect"
    /\ runs' = runs + 1
    /\ authKey' = PyNone
    /\ migrated' = "none" /\ adminOK' = "none" /\ verifyOK' = "none"
    /\ exitCode' = -1
    /\ calls' = << >> /\ out' = << >>
    /\ path' = NoPath
    /\ prev' = IF pc = "done" THEN Snapshot(runs, exitCode, path.create, accounts, profiles) ELSE prev
    /\ UNCHANGED << backendVars, accessVars, harness >>

\* main lines 179-185 with create_supabase_client; create_client itself may
\* raise (caught by main, exit 1); sys.exit inside is not caught.
Connect ==
    /\ pc = "connect"
    /\ LET c == create_supabase_client(env)
       IN  \E clientRaises \in BOOLEAN :
             /\ c.exit => ~ clientRaises
             /\ LET failed == c.exit \/ clientRaises
                IN  /\ out' = Append(out, IF clientRaises THEN "err_connect" ELSE c.out)
                    /\ authKey' = c.key
                    /\ pc' = IF failed THEN "done" ELSE "migrate"
                    /\ exitCode' = IF failed THEN 1 ELSE -1
    /\ UNCHANGED << backendVars, env, migrated, adminOK, verifyOK, calls, path, runs,
                    prev, accessVars, harness >>

\* main lines 187-188 with run_migration_sql.
RunMigration ==
    /\ pc = "migrate"
    /\ \E file \in { "missing", "unreadable", "ok" }, rpc \in { "ok", "raise" } :
         /\ file # "ok" => rpc = "ok"
         /\ LET m == run_migration_sql(file, rpc)
                n == AfterMigration(m.ret)
            IN  /\ migrated' = Bool3(m.ret)
                /\ calls' = calls \o m.calls
                /\ out' = out \o m.out
                /\ pc' = n.pc
                /\ exitCode' = n.exit
    /\ UNCHANGED << backendVars, env, authKey, adminOK, verifyOK, path, runs,
                    prev, accessVars, harness >>

\* The answers create_admin_user never asks for are left at "ok" / the first
\* text, so that each run of the function is enumerated once.
Asked(cu, u1, error_msg, ls, u2) ==
    LET raised == cu = "raise" \/ (cu = "ok" /\ u1 = "raise")
        first  == CHOOSE t \in ErrTexts : TRUE
    IN  /\ cu # "ok" => u1 = "ok"
        /\ ~ raised => error_msg = first /\ ls = "ok" /\ u2 = "ok"
        /\ ls = "raise" => u2 = "ok"

\* main lines 190-193 with create_admin_user.  The identity store rejects a
\* second account for an email it already holds.
CreateAdminUser ==
    /\ pc = "create"
    /\ \E cu \in { "ok", "nouser", "raise" }, u1 \in { "ok", "raise" },
          error_msg \in ErrTexts, ls \in { "ok", "raise" }, u2 \in { "ok", "raise" } :
         /\ AdminAccounts(accounts) # {} => cu = "raise"
         /\ Asked(cu, u1, error_msg, ls, u2)
         /\ LET r == create_admin_user(accounts, profiles, nextId, trigger, runs,
                                       cu, u1, error_msg, ls, u2)
                n == AfterCreate(r.ok)
            IN  /\ accounts' = r.accounts
                /\ profiles' = r.profiles
                /\ nextId' = r.nextId
                /\ adminOK' = Bool3(r.ok)
                /\ calls' = calls \o r.calls
                /\ out' = out \o r.out
                /\ path' = r.path
                /\ pc' = n.pc
                /\ exitCode' = n.exit
    /\ UNCHANGED << trigger, env, authKey, migrated, verifyOK, runs, prev,
                    accessVars, harness >>

\* main lines 195-214 with verify_setup.
VerifySetup ==
    /\ pc = "verify"
    /\ \E s1 \in { "ok", "raise" }, s2 \in { "ok", "raise" }, s3 \in { "ok", "raise" } :
         /\ s1 = "raise" => s2 = "ok"
         /\ (s1 = "raise" \/ s2 = "raise") => s3 = "ok"
         /\ LET v == verify_setup(profiles, s1, s2, s3)
                n == AfterVerify(v.ret)
            IN  /\ verifyOK' = Bool3(v.ret)
                /\ calls' = calls \o v.calls
                /\ out' = out \o v.out
                /\ pc' = n.pc
                /\ exitCode' = n.exit
    /\ UNCHANGED << backendVars, env, authKey, migrated, adminOK, path, runs,
                    prev, accessVars, harness >>

Next ==
    \/ Launch
    \/ Connect
    \/ RunMigration
    \/ CreateAdminUser
    \/ VerifySetup

Spec == Init /\ [][Next]_vars


(***************************************************************************)
(* Harness for verify_setup alone: the function is applied to any content  *)
(* of the profile table (at most one row per account).                     *)
(***************************************************************************)
RowStates ==
    { "absent" } \cup ({ "staff", "admin" } \X BOOLEAN)

\* The accounts in a fixed order of creation.
EmailOrder == << ADMIN_EMAIL, "nurse@clinic.org", "x2646502936yjh@gmail.com" >>

InitVerify ==
    /\ harness = "verify"
    /\ \E f \in [ DOMAIN EmailOrder -> RowStates ] :
         /\ accounts = { [ id |-> i, email |-> EmailOrder[i] ] : i \in DOMAIN EmailOrder }
         /\ profiles = { [ id |-> i, email |-> EmailOrder[i], role |-> f[i][1],
                           is_approved |-> f[i][2], approved_by |-> 0,
                           approved_at |-> 0 ] :
                         i \in { j \in DOMAIN EmailOrder : f[j] # "absent" } }
    /\ nextId = Len(EmailOrder) + 1
    /\ trigger = TRUE
    /\ pc = "verify"
    /\ env = [ url |-> PyStr("https://project.supabase.co"),
               service |-> PyStr("service-role-key"), anon |-> PyNone ]
    /\ authKey = PyStr("service-role-key")
    /\ migrated = "true" /\ adminOK = "true" /\ verifyOK = "none"
    /\ exitCode = -1
    /\ calls = << >> /\ out = << >>
    /\ path = NoPath
    /\ runs = 1
    /\ prev = Snapshot(0, -1, "none", accounts, profiles)
    /\ IdleAccess

NextVerify == VerifySetup

SpecVerify == InitVerify /\ [][NextVerify]_vars

(***************************************************************************)
(* test_supabase_access.py                                                 *)
(***************************************************************************)
\* A JSON identifier: an integer or a string; NoId is Python's None.
NoId      == [ kind |-> "none", n |-> 0, s |-> "" ]
IntId(n)  == [ kind |-> "int", n |-> n, s |-> "" ]
StrId(s)  == [ kind |-> "str", n |-> 0, s |-> s ]
IdValues  == { IntId(0), IntId(1), StrId(""), StrId("7f3c") }

\* Python truth value of an identifier (`if first_med_id:`).
PyTruthyId(v) ==
    CASE v.kind = "none" -> FALSE
      [] v.kind = "int"  -> v.n # 0
      [] v.kind = "str"  -> v.s # ""

Statuses == { 200, 201, 401, 500 }

Ev(ev, check, info, mid) == [ ev |-> ev, check |-> check, info |-> info, mid |-> mid ]

\* lines 45 (67, 86): a read is reported as a success on status 200 only.
ReadOK(status) == status = 200

\* line 118: the write is reported as a success on 200 or 201.
WriteOK(status) == status \in { 200, 201 }

\* lines 45-56
FirstMedId(status, meds) ==
    IF ReadOK(status)
    THEN IF Len(meds) > 0 THEN meds[1] ELSE NoId
    ELSE NoId

\* line 96
WriteCheckRuns(med_id) == PyTruthyId(med_id)

\* lines 98-110: the medication reference of the posted record.
TestRecordMedicationId(med_id) == med_id

\* A variant that sends the request once more after a failure status.
ReadCheck_Retry(check, what, answer, status) ==
    LET req == Ev("request", check, what, NoId)
    IN  IF answer = "raise"
        THEN [ log |-> << req, Ev("traceback", check, "request", NoId) >>, alive |-> FALSE ]
        ELSE IF status # 200
        THEN [ log |-> << req, req, Ev("report", check, "failed", NoId) >>, alive |-> TRUE ]
        ELSE IF answer = "badjson"
        THEN [ log |-> << req, Ev("report", check, "status", NoId),
                          Ev("traceback", check, "json", NoId) >>, alive |-> FALSE ]
        ELSE [ log |-> << req, Ev("report", check, "success", NoId) >>, alive |-> TRUE ]

\* One read check (lines 37-57, 59-76, 78-93): the events it adds, and
\* whether the script goes on.  answer: "raise" (requests.get raised),
\* "badjson" (response.json() raised), "ok".
ReadCheck(check, what, answer, status) ==
    LET req == Ev("request", check, what, NoId)
    IN  IF answer = "raise"
        THEN [ log |-> << req, Ev("traceback", check, "request", NoId) >>, alive |-> FALSE ]
        ELSE IF ~ ReadOK(status)
        THEN [ log |-> << req, Ev("report", check, "failed", NoId) >>, alive |-> TRUE ]
        ELSE IF answer = "badjson"
        THEN [ log |-> << req, Ev("report", check, "status", NoId),
                          Ev("traceback", check, "json", NoId) >>, alive |-> FALSE ]
        ELSE [ log |-> << req, Ev("report", check, "success", NoId) >>, alive |-> TRUE ]

\* The write check (lines 95-130).
WriteCheck(med_id, answer, status) ==
    IF ~ WriteCheckRuns(med_id)
    THEN [ log |-> << Ev("skip", 4, "no medications found", NoId) >>, alive |-> TRUE,
           posted |-> FALSE ]
    ELSE LET req == Ev("request", 4, "POST dispensing_logs", TestRecordMedicationId(med_id))
         IN  IF answer = "raise"
             THEN [ log |-> << req, Ev("traceback", 4, "request", NoId) >>,
                    alive |-> FALSE, posted |-> FALSE ]
             ELSE IF ~ WriteOK(status)
             THEN [ log |-> << req, Ev("report", 4, "failed", NoId) >>,
                    alive |-> TRUE, posted |-> FALSE ]
             ELSE IF answer = "badjson"
             THEN [ log |-> << req, Ev("report", 4, "status", NoId),
                               Ev("traceback", 4, "json", NoId) >>,
                    alive |-> FALSE, posted |-> TRUE ]
             ELSE [ log |-> << req, Ev("report", 4, "success", NoId) >>,
                    alive |-> TRUE, posted |-> TRUE ]

Answers == { "ok", "badjson", "raise" }

\* The medications table: at most MaxMeds rows, identifiers unique.
MedTables ==
    { m \in UNION { [ 1..n -> IdValues ] : n \in 0..MaxMeds } :
        \A i, j \in DOMAIN m : i # j => m[i] # m[j] }

InitAccess ==
    /\ harness = "access"
    /\ accounts = {} /\ profiles = {} /\ nextId = 1 /\ trigger = TRUE
    /\ IdleProv
    /\ apc = "t1"
    /\ medications \in MedTables
    /\ first_med_id = NoId
    /\ alog = << >>
    /\ written = << >>

\* TEST 1, lines 37-57
Test1 ==
    /\ apc = "t1"
    /\ \E answer \in Answers, status \in Statuses :
         LET r == ReadCheck(1, "GET medications", answer, status)
         IN  /\ alog' = alog \o r.log
             /\ apc' = IF r.alive THEN "t2" ELSE "aborted"
             /\ first_med_id' = IF r.alive THEN FirstMedId(status, medications)
                                ELSE first_med_id
    /\ UNCHANGED << backendVars, provVars, medications, written, harness >>

\* TEST 2, lines 59-76
Test2 ==
    /\ apc = "t2"
    /\ \E answer \in Answers, status \in Statuses :
         LET r == ReadCheck(2, "GET inventory", answer, status)
         IN  /\ alog' = alog \o r.log
             /\ apc' = IF r.alive THEN "t3" ELSE "aborted"
    /\ UNCHANGED << backendVars, provVars, medications, first_med_id, written, harness >>

\* TEST 3, lines 78-93
Test3 ==
    /\ apc = "t3"
    /\ \E answer \in Answers, status \in Statuses :
         LET r == ReadCheck(3, "GET dispensing_logs", answer, status)
         IN  /\ alog' = alog \o r.log
             /\ apc' = IF r.alive THEN "t4" ELSE "aborted"
    /\ UNCHANGED << backendVars, provVars, medications, first_med_id, written, harness >>

\* TEST 4, lines 95-130; the backend stores the record when it answers 200/201.
Test4 ==
    /\ apc = "t4"
    /\ \E answer \in Answers, status \in Statuses :
         LET r == WriteCheck(first_med_id, answer, status)
         IN  /\ alog' = alog \o r.log
             /\ apc' = IF r.alive THEN "t5" ELSE "aborted"
             /\ written' = IF r.posted
                           THEN Append(written, TestRecordMedicationId(first_med_id))
                           ELSE written
    /\ UNCHANGED << backendVars, provVars, medications, first_med_id, harness >>

\* lines 132-135
Complete ==
    /\ apc = "t5"
    /\ apc' = "end"
    /\ alog' = Append(alog, Ev("complete", 0, "TEST COMPLETE", NoId))
    /\ UNCHANGED << backendVars, provVars, medications, first_med_id, written, harness >>

NextAccess ==
    \/ Test1
    \/ Test2
    \/ Test3
    \/ Test4
    \/ Complete

SpecAccess == InitAccess /\ [][NextAccess]_vars


(***************************************************************************)
(* Properties of the provisioning tool (specification Spec).               *)
(***************************************************************************)
\* Error texts by which the backend signals that the identity exists.
DuplicateSignals ==
    { << "User", "already_exists" >>, << "Duplicate", "key" >>, << "duplicate", "key" >> }

HasCall(op) == \E i \in DOMAIN calls : calls[i].op = op

VerifyCalls == { "select_user_profiles", "select_invitation_codes", "select_admin" }

\* No remote call after the create call raised in the current run.
NoLaterRaise ==
    \A i \in DOMAIN calls :
        calls[i].res = "raise" => calls[i].op \in { "rpc", "create_user" }

AdminIds == { a.id : a \in AdminAccounts(accounts) }

PrivilegedRows(rows) ==
    /\ rows # {}
    /\ \A r \in rows : r.role = "admin" /\ r.is_approved /\ r.approved_by = r.id

BadConfig ==
    \/ ~ PyTruthy(env.url)
    \/ (~ PyTruthy(env.service) /\ ~ PyTruthy(env.anon))

\* C1: when a run that ended with status 0 is followed by another run, then
\* after each of the two runs there is exactly one account for the admin
\* email, the same one, and its profile row has role=admin, approval=true;
\* the backend state the second run leaves is the one the first left; and a
\* second run whose create call is rejected with a duplicate signal, none of
\* its later remote calls raising, ends with status 0 as well.
C1_TwoRunsConverge ==
    (pc = "done" /\ prev.run >= 1 /\ prev.exit = 0) =>
        /\ Cardinality(prev.admins) = 1
        /\ PrivilegedRows(prev.rows)
        /\ AdminIds = prev.admins
        /\ AdminRows(accounts, profiles) = prev.rows
        /\ (path.create = "raise" /\ path.msg \in DuplicateSignals /\ NoLaterRaise)
              => exitCode = 0 /\ adminOK = "true"

C1_Witness ==
    /\ pc = "done" /\ runs = 2
    /\ prev.run = 1 /\ prev.exit = 0 /\ prev.create = "ok"
    /\ path.create = "raise" /\ path.msg = << "Duplicate", "key" >>
    /\ exitCode = 0
    /\ AdminRows(accounts, profiles) = prev.rows

C3_ExitZeroMeansAdmin ==
    (pc = "done" /\ exitCode = 0) =>
        /\ Cardinality(AdminIds) = 1
        /\ PrivilegedRows(AdminRows(accounts, profiles))

\* a re-run that ends with status 0 although its migration step failed
C3_Witness ==
    /\ pc = "done" /\ exitCode = 0 /\ runs = 2 /\ prev.exit = 0
    /\ migrated = "false" /\ path.create = "raise"
    /\ PrivilegedRows(AdminRows(accounts, profiles))

\* C4: with no backend URL, or with neither credential, the run ends with a
\* non-zero status at the connect step, no remote call made and the backend
\* untouched; with both credentials the service-role one is used.
C4_BadConfigStopsEarly ==
    /\ (pc # "idle" /\ BadConfig) =>
          /\ pc \in { "connect", "done" }
          /\ calls = << >>
          /\ pc = "done" => exitCode = 1
          /\ prev.run >= 1 =>
                AdminIds = prev.admins /\ AdminRows(accounts, profiles) = prev.rows
    /\ (pc \in { "migrate", "create", "verify" }
          /\ PyTruthy(env.service) /\ PyTruthy(env.anon)) => authKey = env.service

C4_Witness ==
    /\ pc = "done" /\ exitCode = 1 /\ calls = << >>
    /\ PyTruthy(env.url) /\ env.service = PyStr("") /\ env.anon = PyNone

\* C5: whatever the migration step returns, the tool goes on to call
\* create_user, and the exit status is decided by create_admin_user and
\* verify_setup alone.
C5_MigrationNonFatal ==
    /\ migrated # "none" => pc \in { "create", "verify", "done" }
    /\ (pc = "done" /\ migrated # "none") =>
          /\ HasCall("create_user")
          /\ exitCode = 0 <=> (adminOK = "true" /\ verifyOK = "true")

C5_Witness ==
    /\ pc = "done" /\ exitCode = 0 /\ migrated = "false"
    /\ \E i \in DOMAIN out : out[i] = "migration_file_not_found"
    /\ HasCall("create_user")

\* C9: when the create call raises an error that is no duplicate signal, the
\* tool exits with a non-zero status having neither listed identities, nor
\* updated a profile, nor run verification; when the duplicate branch finds
\* no account, or its listing or update raises, the tool exits with a
\* non-zero status without running verification.
C9_CreateFailureIsFatal ==
    /\ (path.create = "raise" /\ path.msg \notin DuplicateSignals) =>
          /\ pc = "done" /\ exitCode = 1
          /\ ~ HasCall("list_users") /\ ~ HasCall("update")
          /\ \A op \in VerifyCalls : ~ HasCall(op)
    /\ (path.excepted /\ path.msg \in DuplicateSignals
          /\ (path.listRaised \/ path.updRaised \/ path.target = 0)) =>
          /\ pc = "done" /\ exitCode = 1
          /\ \A op \in VerifyCalls : ~ HasCall(op)

C9_Witness ==
    /\ pc = "done" /\ exitCode = 1
    /\ path.create = "raise" /\ path.msg = << "User", "Already_Exists" >>
    /\ AdminIds # {}
    /\ calls[Len(calls)].op = "create_user"


(***************************************************************************)
(* Properties of verify_setup (specification SpecVerify).                  *)
(***************************************************************************)
IsWarning(line) == line \in { "warn_admin_not_found", "warn_admin_mismatch" }

AdminReadAnswered ==
    \E i \in DOMAIN calls : calls[i] = Call("select_admin", "ok")

\* C6: after the profile row for the admin email has been read: no row means
\* a non-zero exit status; a row whose role is not admin or whose approval is
\* not true is reported by a warning line and the exit status is 0; the
\* profile table is as it was before the verification.
C6_VerifyReportsMismatch ==
    (pc = "done" /\ AdminReadAnswered) =>
        /\ AdminResult(profiles) = {} => exitCode # 0
        /\ \A p \in AdminResult(profiles) :
              (p.role # "admin" \/ ~ p.is_approved) =>
                  /\ exitCode = 0
                  /\ \E i \in DOMAIN out : IsWarning(out[i])
        /\ AdminRows(accounts, profiles) = prev.rows

(***************************************************************************)
(* Properties of the access-verification tool (specification SpecAccess).  *)
(***************************************************************************)
Requests(check) == { i \in DOMAIN alog : alog[i].ev = "request" /\ alog[i].check = check }

AllRequests == { i \in DOMAIN alog : alog[i].ev = "request" }

Reported(check, info) ==
    \E i \in DOMAIN alog : alog[i].ev = "report" /\ alog[i].check = check
                             /\ alog[i].info = info

Terminated == apc \in { "end", "aborted" }

\* C7: once check 4 is over, a write request has been sent exactly when
\* check 1 reported a success with at least one medication row, and the
\* request's medication reference is the identifier of the first row.
C7_WriteGate ==
    apc \in { "t5", "end" } =>
        /\ (Requests(4) # {}) <=> (Reported(1, "success") /\ Len(medications) > 0)
        /\ \A i \in Requests(4) : alog[i].mid = medications[1]

\* C8: whatever fails, checks 2 and 3 are attempted before the tool
\* terminates, and check 4 is left out only when check 1 yielded no row.
C8_ChecksAlwaysAttempted ==
    Terminated =>
        /\ Requests(2) # {}
        /\ Requests(3) # {}
        /\ Requests(4) = {} => ~ (Reported(1, "success") /\ Len(medications) > 0)

CheckPath(check) ==
    CASE check = 1 -> "GET medications"
      [] check = 2 -> "GET inventory"
      [] check = 3 -> "GET dispensing_logs"
      [] check = 4 -> "POST dispensing_logs"

\* C10: the requests go out in the order medications read, inventory read,
\* dispensing_logs read, dispensing_logs write, at most one per check and
\* exactly one per check that was carried out; every request but the first
\* directly follows the report of the check before it; at most one record is
\* written, none is deleted, and a written record stays.
C10_OneRequestPerCheckInOrder ==
    /\ \A i, j \in AllRequests : i < j => alog[i].check < alog[j].check
    /\ \A i \in AllRequests : alog[i].info = CheckPath(alog[i].check)
    /\ \A i \in AllRequests :
          i > 1 => alog[i - 1].ev = "report" /\ alog[i - 1].check = alog[i].check - 1
    /\ \A k \in 1..3 :
          (\E i \in DOMAIN alog : alog[i].ev = "report" /\ alog[i].check = k)
             => Cardinality(Requests(k)) = 1
    /\ Cardinality(Requests(4)) <= 1
    /\ Len(written) <= Cardinality(Requests(4))
    /\ Reported(4, "success") => Len(written) = 1
    /\ apc = "end" =>
          /\ \A k \in 1..3 : Cardinality(Requests(k)) = 1
          /\ Cardinality(Requests(4)) = 1 <=> WriteCheckRuns(first_med_id)

C10_Witness ==
    /\ apc = "end"
    /\ Reported(1, "success") /\ Reported(2, "failed") /\ Reported(3, "success")
    /\ Reported(4, "success")
    /\ Len(written) = 1 /\ written[1] = medications[1]
    /\ Cardinality(AllRequests) = 4

====
